---- MODULE Spec2Model ----
(***************************************************************************)
(* State-machine model of scope_capture.py: the configuration store        *)
(* (initial_config / save_config / change_config), the VISA gateway        *)
(* closures of main (loadvisa, tryconnect), the capture closures           *)
(* (prtscrmacro, savemacro), the Tk edit handlers and the cleanup that     *)
(* follows root.mainloop().                                                *)
(*                                                                         *)
(* Python dictionaries are functions whose DOMAIN is the set of keys       *)
(* present.  Every Tk callback runs to completion on the dispatch thread,  *)
(* so one action is one whole handler.  An exception escaping a callback   *)
(* is reported by Tk and the main loop goes on; an exception escaping      *)
(* main() reaches the handler at the bottom of the file, which logs and    *)
(* exits.                                                                  *)
(***************************************************************************)
EXTENDS Integers, Sequences, FiniteSets, TLC

\* ---------------------------------------------------------------- bounds
\* successful open_resource calls explored in one run
MaxConnects == 3

\* ------------------------------------------------------- program literals
Keys == {"background", "imagepath", "imagename", "instrumentaddr"}

Defaults ==
  [background     |-> "WHITE",
   imagepath      |-> "C:\\Users\\Public\\Pictures",
   imagename      |-> "screencapture.jpeg",
   instrumentaddr |-> "USB0::TEMPLATE"]

VisaUp   == "VISA: UP"
VisaDown == "VISA: DOWN"
LinkUp   == "LINK: UP"
LinkDown == "LINK: DOWN"

\* pyvisa.Resource, the class object main binds oscope to
ResourceClass == [kind |-> "class", id |-> 0]

\* the f-string of prtscrmacro, kept as its three pieces
hcsucmd(bg) == <<"HCSU DEV, JPEG, BCKG, ", bg, ", AREA, GRIDAREAONLY, PORT, NET">>

scdpcmd == <<"SCDP">>

\* ------------------------------------------------ environment (the inputs)
EmptyDict == [k \in {} |-> ""]

\* values a hand-written configuration file may hold besides the defaults
AltValues ==
  [background     |-> "BLACK",
   imagepath      |-> "D:/caps",
   imagename      |-> "shot.jpeg",
   instrumentaddr |-> "USB0::1234::5678::INSTR"]

\* every [config] section over subsets of the four keys
FileDicts ==
  UNION { [S -> {"d", "a"}] : S \in SUBSET Keys }

Realise(m) == [k \in DOMAIN m |-> IF m[k] = "d" THEN Defaults[k] ELSE AltValues[k]]

NoFile    == [exists |-> FALSE, hasConfig |-> FALSE, kv |-> EmptyDict]
EmptyFile == [exists |-> TRUE,  hasConfig |-> FALSE, kv |-> EmptyDict]

InitialFiles ==
  {NoFile, EmptyFile} \cup
  { [exists |-> TRUE, hasConfig |-> TRUE, kv |-> Realise(m)] : m \in FileDicts }

Backgrounds == {"BLACK", "WHITE"}
Dirs        == {Defaults.imagepath, AltValues.imagepath}
Names       == {Defaults.imagename, AltValues.imagename}
Payloads    == {<<255, 216, 255, 217>>, <<1, 2, 3>>}

\* what rm.list_resources() may report
ResourceLists == {<<>>, <<AltValues.instrumentaddr>>}

\* how the two backend calls of loadvisa may end
VisaOutcomes == {"ok", "init_raises", "list_raises"}

VARIABLES
  pc,             \* start | loaded | visaloaded | mainloop | closed | exited
  file,           \* scopecaptureconfig.ini on disk
  file0,          \* the file as it was when the program started (history)
  cfg,            \* the ConfigParser object: [hasConfig, kv]
  rm,             \* main's rm: "unbound" | "None" | "RM"
  resources,      \* main's resources
  visastatus, visastatustext,
  connstatus, connstatustext,
  oscope,         \* main's oscope
  sessions,       \* resources open under rm: set of [id, addr]
  nextId,         \* id of the next session open_resource creates
  peakOpen,       \* most sessions ever open at once (history)
  loopClosed,     \* sessions the closing loop of the last tryconnect closed (history)
  openOk,         \* the last tryconnect's open_resource returned a session (history)
  target, bckg, imagepath, imagename,   \* the four StringVars
  wire,           \* I/O performed on sessions, in order
  disk,           \* image files written: set of [dir, name, data]
  offered,        \* payload the instrument holds for the last capture
  last,           \* last function / handler run (history)
  visaOutcome,    \* how the last loadvisa's backend calls ended (history)
  ret,            \* value the last loadvisa returned (history)
  raised          \* exception that escaped the last function / handler

vars == <<pc, file, file0, cfg, rm, resources, visastatus, visastatustext,
          connstatus, connstatustext, oscope, sessions, nextId, peakOpen,
          loopClosed, openOk, target, bckg, imagepath, imagename, wire, disk,
          offered, last, visaOutcome, ret, raised>>

gui    == <<target, bckg, imagepath, imagename>>
visa   == <<rm, resources, visastatus, visastatustext, visaOutcome, ret>>
link   == <<connstatus, connstatustext, oscope, sessions, nextId, peakOpen,
            loopClosed, openOk>>
io     == <<wire, disk, offered>>

Max(a, b) == IF a >= b THEN a ELSE b

Init ==
  /\ pc = "start"
  /\ file \in InitialFiles
  /\ file0 = file
  /\ cfg = [hasConfig |-> FALSE, kv |-> EmptyDict]
  /\ rm = "unbound"
  /\ resources = <<>>
  /\ visastatus = FALSE
  /\ visastatustext = VisaDown
  /\ connstatus = FALSE
  /\ connstatustext = LinkDown
  /\ oscope = ResourceClass
  /\ sessions = {}
  /\ nextId = 1
  /\ peakOpen = 0
  /\ loopClosed = 0
  /\ openOk = FALSE
  /\ target = ""
  /\ bckg = ""
  /\ imagepath = ""
  /\ imagename = ""
  /\ wire = <<>>
  /\ disk = {}
  /\ offered = <<>>
  /\ last = "none"
  /\ visaOutcome = "none"
  /\ ret = <<>>
  /\ raised = "none"

\* ------------------------------------------------------ configuration store
\* config.read(path): the list of files parsed, empty only if none was read
config_read(f) == IF f.exists THEN <<"scopecaptureconfig.ini">> ELSE <<>>

\* config.write(open(filepath, 'w'))
save_config(c) == [exists |-> TRUE, hasConfig |-> c.hasConfig, kv |-> c.kv]

\* config['config'][key] = val
change_config(c, key, val) ==
  [c EXCEPT !.kv = [k \in DOMAIN c.kv \cup {key} |-> IF k = key THEN val ELSE c.kv[k]]]

\* initial_config(), called first thing by main
initial_config ==
  /\ pc = "start"
  /\ LET found  == config_read(file) # <<>>
         config == IF found
                     THEN [hasConfig |-> file.hasConfig, kv |-> file.kv]
                     ELSE [hasConfig |-> TRUE, kv |-> Defaults]
     IN /\ cfg' = config
        /\ file' = IF found THEN file ELSE save_config(config)
        /\ IF config.hasConfig
             THEN pc' = "loaded" /\ raised' = "none"
             ELSE pc' = "exited" /\ raised' = "KeyError"
  /\ last' = "initial_config"
  /\ UNCHANGED <<file0, visa, link, gui, io>>

\* ------------------------------------------------------------ VISA gateway
\* loadvisa without the 'rm = None' of its except clause, a manager that was
\* created before list_resources failed is handed back
loadvisa_rm_kept(outcome) == IF outcome = "init_raises" THEN "None" ELSE "RM"

\* rm as loadvisa returns it: the except clause rebinds it to None
loadvisa_rm(outcome) == IF outcome = "ok" THEN "RM" ELSE "None"

\* resources as loadvisa returns them
loadvisa_resources(outcome, listed) == IF outcome = "ok" THEN listed ELSE <<>>

\* the body of loadvisa(): try / except Exception / else / finally: return.
\* The return inside finally discards any exception still in flight, so
\* nothing escapes the call.
loadvisa(outcome, listed) ==
  /\ visastatus' = (outcome = "ok")
  /\ visastatustext' = IF outcome = "ok" THEN VisaUp ELSE VisaDown
  /\ visaOutcome' = outcome
  /\ ret' = <<loadvisa_rm(outcome), loadvisa_resources(outcome, listed)>>
  /\ raised' = "none"

\* main: rm, resources = loadvisa()
startup_loadvisa ==
  /\ pc = "loaded"
  /\ \E outcome \in VisaOutcomes, listed \in ResourceLists :
       loadvisa(outcome, listed)
  /\ rm' = ret'[1]
  /\ resources' = ret'[2]
  /\ pc' = "visaloaded"
  /\ last' = "loadvisa_startup"
  /\ UNCHANGED <<file, file0, cfg, link, gui, io>>

\* the 'Try VISA' button: command=loadvisa, the returned pair is dropped
visabutton ==
  /\ pc = "mainloop"
  /\ \E outcome \in VisaOutcomes, listed \in ResourceLists :
       loadvisa(outcome, listed)
  /\ last' = "loadvisa_button"
  /\ UNCHANGED <<pc, file, file0, cfg, rm, resources, link, gui, io>>

\* main from the first widget to root.mainloop(): the StringVars are seeded
\* from cfg['config'][...] (a missing key is a KeyError), and the OptionMenu
\* is built with variable=target next to *resources, so a non-empty
\* resources binds 'variable' twice (TypeError).
build_window ==
  /\ pc = "visaloaded"
  /\ IF "instrumentaddr" \notin DOMAIN cfg.kv
       THEN pc' = "exited" /\ raised' = "KeyError" /\ UNCHANGED gui
     ELSE IF resources # <<>>
       THEN pc' = "exited" /\ raised' = "TypeError" /\ UNCHANGED gui
     ELSE IF ~ ({"background", "imagepath", "imagename"} \subseteq DOMAIN cfg.kv)
       THEN pc' = "exited" /\ raised' = "KeyError" /\ UNCHANGED gui
     ELSE /\ pc' = "mainloop"
          /\ raised' = "none"
          /\ target' = cfg.kv["instrumentaddr"]
          /\ bckg' = cfg.kv["background"]
          /\ imagepath' = cfg.kv["imagepath"]
          /\ imagename' = cfg.kv["imagename"]
  /\ last' = "build_window"
  /\ UNCHANGED <<file, file0, cfg, visa, link, io>>

\* tryconnect without its closing loop
closed_by_loop_skipped(opened) == opened

\* what rm.list_opened_resources() still holds after the closing loop
closed_by_loop(opened) == {}

\* the label after the closing loop: set to DOWN once per session closed
text_after_loop(opened, shown) == IF opened # {} THEN LinkDown ELSE shown

\* the label after the try statement: else branch UP, except branch DOWN
link_after_open(ok, shown) == IF ok THEN LinkUp ELSE LinkDown

\* tryconnect(), the 'Connect Instrument' button.  The loop over
\* rm.list_opened_resources() stands before the try, so with rm = None the
\* AttributeError leaves the handler.  oscope is assigned without nonlocal:
\* the session is bound to a local name and main's oscope keeps its value.
tryconnect ==
  /\ pc = "mainloop"
  /\ nextId <= MaxConnects
  /\ IF rm = "None"
       THEN /\ raised' = "AttributeError"
            /\ loopClosed' = 0
            /\ openOk' = FALSE
            /\ UNCHANGED <<connstatus, connstatustext, oscope, sessions, nextId,
                           peakOpen>>
       ELSE \E ok \in BOOLEAN :
              LET kept   == closed_by_loop(sessions)
                  opened == IF ok
                              THEN {[id |-> nextId, addr |-> cfg.kv["instrumentaddr"]]}
                              ELSE {}
              IN /\ sessions' = kept \cup opened
                 /\ nextId' = IF ok THEN nextId + 1 ELSE nextId
                 /\ peakOpen' = Max(peakOpen, Cardinality(sessions'))
                 /\ loopClosed' = Cardinality(sessions \ kept)
                 /\ openOk' = ok
                 /\ connstatus' = ok
                 /\ connstatustext' =
                      link_after_open(ok, text_after_loop(sessions, connstatustext))
                 /\ oscope' = oscope
                 /\ raised' = "none"
  /\ last' = "tryconnect"
  /\ UNCHANGED <<pc, file, file0, cfg, visa, gui, io>>

\* The Resource tryconnect opened is referenced by its local oscope only.
\* Once the handler has returned nothing refers to it, and pyvisa closes the
\* session of a Resource when the object is finalized; when that happens is
\* up to the interpreter (at once under reference counting).
finalize_session ==
  /\ pc = "mainloop"
  /\ \E s \in sessions :
       /\ ~ (oscope.kind = "session" /\ oscope.id = s.id)
       /\ sessions' = sessions \ {s}
  /\ UNCHANGED <<pc, file, file0, cfg, visa, connstatus, connstatustext, oscope,
                 nextId, peakOpen, loopClosed, openOk, gui, io, last, raised>>

\* ---------------------------------------------------------- edit handlers
\* the Black / White radiobuttons
pick_background ==
  /\ pc = "mainloop"
  /\ \E b \in Backgrounds :
       /\ bckg' = b
       /\ cfg' = change_config(cfg, "background", b)
  /\ last' = "pick_background"
  /\ raised' = "none"
  /\ UNCHANGED <<pc, file, file0, visa, link, target, imagepath, imagename, io>>

\* choose_savedir(), the 'Browse' button
choose_savedir ==
  /\ pc = "mainloop"
  /\ \E newdir \in Dirs :
       /\ imagepath' = newdir
       /\ cfg' = change_config(cfg, "imagepath", newdir)
  /\ last' = "choose_savedir"
  /\ raised' = "none"
  /\ UNCHANGED <<pc, file, file0, visa, link, target, bckg, imagename, io>>

\* typing into imagename_entry: only the StringVar follows the text
edit_imagename ==
  /\ pc = "mainloop"
  /\ \E n \in Names : imagename' = n
  /\ last' = "edit_imagename"
  /\ raised' = "none"
  /\ UNCHANGED <<pc, file, file0, cfg, visa, link, target, bckg, imagepath, io>>

\* ------------------------------------------------------------------ capture
\* savemacro(photo): open(savedir / imagename.get(), 'wb+'), write, close
savemacro(photo) ==
  {f \in disk : ~ (f.dir = cfg.kv["imagepath"] /\ f.name = imagename)}
    \cup {[dir |-> cfg.kv["imagepath"], name |-> imagename, data |-> photo]}

\* prtscrmacro(), the 'Print Screen' button.  It reads main's oscope; on the
\* class object the first attribute lookup, oscope.write, already fails.
prtscrmacro ==
  /\ pc = "mainloop"
  /\ \E payload \in Payloads :
       /\ offered' = payload
       /\ IF oscope.kind = "class"
            THEN /\ raised' = "AttributeError"
                 /\ UNCHANGED <<wire, disk>>
            ELSE /\ wire' = wire \o
                      << [session |-> oscope.id, op |-> "write",
                          data |-> hcsucmd(cfg.kv["background"])],
                         [session |-> oscope.id, op |-> "write", data |-> scdpcmd],
                         [session |-> oscope.id, op |-> "read_raw", data |-> payload] >>
                 /\ disk' = savemacro(payload)
                 /\ raised' = "none"
  /\ last' = "prtscrmacro"
  /\ UNCHANGED <<pc, file, file0, cfg, visa, link, gui>>

\* ----------------------------------------------------------------- shutdown
\* the window is closed: root.mainloop() returns and the cleanup runs
close_window ==
  /\ pc = "mainloop"
  /\ IF rm = "None"
       THEN /\ pc' = "exited"
            /\ raised' = "AttributeError"
            /\ UNCHANGED <<file, sessions>>
       ELSE /\ pc' = "closed"
            /\ raised' = "none"
            /\ sessions' = {}
            /\ file' = save_config(cfg)
  /\ last' = "cleanup"
  /\ UNCHANGED <<file0, cfg, visa, connstatus, connstatustext, oscope, nextId,
                 peakOpen, loopClosed, openOk, gui, io>>

Next ==
  \/ initial_config
  \/ startup_loadvisa
  \/ build_window
  \/ visabutton
  \/ tryconnect
  \/ finalize_session
  \/ pick_background
  \/ choose_savedir
  \/ edit_imagename
  \/ prtscrmacro
  \/ close_window

Spec == Init /\ [][Next]_vars

TypeOK ==
  /\ pc \in {"start", "loaded", "visaloaded", "mainloop", "closed", "exited"}
  /\ rm \in {"unbound", "None", "RM"}
  /\ oscope.kind \in {"class", "session"}

\* ======================================================================
\* Properties
\* ======================================================================

\* C1: after any sequence of tryconnect invocations at most one session is
\* open under rm, and never were two open at once: the sessions already
\* open are closed before the new one is opened.
C1_AtMostOneSession == peakOpen <= 1 /\ Cardinality(sessions) <= 1

\* a second successful connect, made while the first session was still open
C1_Reconnected ==
  /\ last = "tryconnect"
  /\ raised = "none"
  /\ loopClosed = 1
  /\ \E s \in sessions : s.id >= 2

\* C2: from loaded defaults, once the connect handler reported LINK: UP, a
\* capture sends its commands over the session connect opened and the file
\* <imagepath>/<imagename> holds exactly the bytes the instrument returned.
C2_EndToEnd ==
  (pc = "mainloop" /\ file0 = NoFile /\ connstatustext = LinkUp /\ last = "prtscrmacro")
    => /\ Len(wire) >= 3
       /\ \E s \in sessions :
            \A i \in (Len(wire) - 2) .. Len(wire) : wire[i].session = s.id
       /\ \E f \in disk : /\ f.dir = cfg.kv["imagepath"]
                          /\ f.name = imagename
                          /\ f.data = offered

\* C3: every capture issues exactly the setup command with the background
\* held in the settings, then SCDP, then one raw read, and hands on the
\* bytes read unmodified.
C3_CaptureSequence ==
  last = "prtscrmacro"
    => LET n == Len(wire)
       IN /\ n >= 3
          /\ n % 3 = 0
          /\ wire[n - 2].op = "write"
          /\ wire[n - 2].data = hcsucmd(cfg.kv["background"])
          /\ wire[n - 1].op = "write"
          /\ wire[n - 1].data = scdpcmd
          /\ wire[n].op = "read_raw"
          /\ wire[n].data = offered
          /\ \E f \in disk : f.data = offered

\* C4: initial_config on a missing or an empty configuration file returns
\* the default settings and leaves a file holding exactly the four keys.
C4_DefaultsOnMissingOrEmpty ==
  (last = "initial_config" /\ file0 \in {NoFile, EmptyFile})
    => /\ raised = "none"
       /\ cfg.hasConfig
       /\ cfg.kv = Defaults
       /\ file = [exists |-> TRUE, hasConfig |-> TRUE, kv |-> Defaults]

\* C5: once initial_config has returned, whatever the file held, the
\* settings in memory have all four keys, and every later handler keeps them.
C5_AllKeysPresent ==
  pc \in {"loaded", "visaloaded", "mainloop", "closed"} => DOMAIN cfg.kv = Keys

\* C6: after each edit handler, and after the window was closed, the
\* configuration file holds the four settings as the user last set them.
C6_SavedOnEditAndShutdown ==
  last \in {"pick_background", "choose_savedir", "edit_imagename", "cleanup"}
    => file = [exists |-> TRUE, hasConfig |-> TRUE,
               kv |-> [background     |-> bckg,
                       imagepath      |-> imagepath,
                       imagename      |-> imagename,
                       instrumentaddr |-> target]]

\* C7: when backend initialisation or resource enumeration raises, loadvisa
\* returns (None, []), sets the backend status to DOWN and lets nothing
\* reach its caller.
C7_DiscoveryFailureContained ==
  (last \in {"loadvisa_startup", "loadvisa_button"}
     /\ visaOutcome \in {"init_raises", "list_raises"})
    => /\ ret = <<"None", <<>>>>
       /\ visastatus = FALSE
       /\ visastatustext = VisaDown
       /\ raised = "none"
       /\ pc # "exited"

\* enumeration fails on a retry, after the startup discovery had succeeded
C7_ListFailedOnRetry ==
  /\ last = "loadvisa_button"
  /\ visaOutcome = "list_raises"
  /\ rm = "RM"

\* C8: a tryconnect that opens no session, in any reachable state, raises
\* nothing to its caller and leaves the link DOWN with no session open.
C8_ConnectFailureCaught ==
  (pc = "mainloop" /\ last = "tryconnect" /\ ~ openOk)
    => /\ raised = "none"
       /\ sessions = {}
       /\ connstatus = FALSE
       /\ connstatustext = LinkDown

\* C9: the backend indicator reads UP only if the rm that tryconnect and the
\* cleanup use is a live handle.
C9_BackendStatusMatchesHandle ==
  visastatustext = VisaUp => rm = "RM"

\* C10: while the main loop is idle, the link indicator reads UP iff exactly
\* one session is open under rm, and DOWN iff none is.
C10_LinkStatusMatchesSessions ==
  pc = "mainloop"
    => /\ connstatustext = LinkUp <=> Cardinality(sessions) = 1
       /\ connstatustext = LinkDown <=> sessions = {}

====
